---- MODULE Spec2Model ----
(***************************************************************************)
(* PixVault: pattern-based authentication (routes/auth.js, models/user.js) *)
(* and the file encryption engine (routes/files.js, utils/encryption.js).  *)
(*                                                                         *)
(* The specifications of the module:                                       *)
(*   SpecLockout, SpecSession, SpecStore, SpecRace, SpecMatch, SpecTakeover*)
(*              the /auth handlers over the user collection, the global    *)
(*              pattern-session map and a clock, each with the requests    *)
(*              its properties are about;                                  *)
(*   SpecCrypt  EncryptionService.encryptStream / decryptStream as pure    *)
(*              functions over bounded inputs;                             *)
(*   SpecHash, SpecDelim                                                   *)
(*              hashPattern (client) and hashPassMatrix / validatePassMatrix*)
(*              (server) over bounded selections and salts;                *)
(*   SpecWrap   EncryptionService.encryptKey / decryptKey over bounded     *)
(*              keys and credentials;                                      *)
(*   SpecFiles, SpecShare                                                  *)
(*              the upload, download, share and delete handlers over the   *)
(*              upload folder and the file collection;                     *)
(*   SpecClient, SpecClientLive                                            *)
(*              the response interceptor of the client (services/api.js);  *)
(*   SpecPerm   the checkPermission middleware.                            *)
(***************************************************************************)
EXTENDS Integers, Sequences, FiniteSets, TLC

VARIABLES
    users,            \* the User collection: username -> document or NoUser
    patternSessions,  \* global.patternSessions: NoMap or sessionId -> session
    nextSid,          \* how many session ids crypto.randomBytes has produced
    now,              \* Date.now(), in milliseconds
    reqs,             \* in-flight verify-pattern requests, one slot per worker
    lastResp,         \* the response most recently sent by an /auth handler
    consecFails,      \* history: consecutive failed verifications per username
    fifthFailAt,      \* history: when the 5th consecutive failure was answered
    okCount,          \* history: successful verifications per sessionId
    verifiedOk,       \* history: usernames whose pattern was verified
    tokens,           \* history: usernames a JWT was issued for
    cr,               \* SpecCrypt: the round trip under test
    hp,               \* SpecHash, SpecDelim: the pattern hashes under test
    kw,               \* SpecWrap: the key wrap under test
    ic,               \* SpecClient: the client's response interceptor
    pm,               \* SpecPerm: the permission check under test
    disk,             \* SpecFiles: the upload folder, path -> bytes or NoFile
    files,            \* SpecFiles: the File collection, id -> record or NoRec
    dl,               \* SpecFiles: the outcome of the last download or delete
    uploads,          \* SpecFiles: upload requests served
    tampers           \* SpecFiles: out-of-band writes to the upload folder

authVars == <<users, patternSessions, nextSid, now, reqs, lastResp,
              consecFails, fifthFailAt, okCount, verifiedOk, tokens>>
fileVars == <<disk, files, dl, uploads, tampers>>
pureVars == <<cr, hp, kw, ic, pm>>
vars == <<users, patternSessions, nextSid, now, reqs, lastResp, consecFails,
          fifthFailAt, okCount, verifiedOk, tokens, cr, hp, kw, ic, pm, disk, files, dl,
          uploads, tampers>>

(***************************************************************************)
(* Bounds of the model.                                                    *)
(***************************************************************************)
MaxSessions == 2      \* pattern sessions created in one behaviour
MaxTicks == 2         \* clock ticks in one behaviour
RaceWorkers == 2      \* verify-pattern requests in flight at once in SpecRace
MaxPatLen == 2        \* points in a selection
MaxPlainLen == 3      \* bytes in a file
Radix == 2            \* values a byte takes
MaxKey == 1           \* file keys are 0..MaxKey
TagRadix == 7         \* values an authentication tag takes
MaxUploads == 1       \* upload requests
MaxTampers == 1       \* out-of-band writes to a stored file
MaxRequests == 3      \* requests the client sends through api

(***************************************************************************)
(* Strings are sequences of UTF-16 code units, so that Array.prototype.sort *)
(* and join act on them as in JavaScript.                                  *)
(***************************************************************************)
ChBar == <<124>>      \* "|"
ChColon == <<58>>     \* ":"
StrAmy == <<97, 109, 121>>     \* "amy"
StrBob == <<98, 111, 98>>      \* "bob"
Pt00 == <<48, 44, 48>>         \* "0,0"
Pt01 == <<48, 44, 49>>         \* "0,1"
Pt10 == <<49, 44, 48>>         \* "1,0"

RECURSIVE StrLess(_, _)
\* a < b on strings: lexicographic on code units (the default sort order).
StrLess(a, b) ==
    IF b = <<>> THEN FALSE
    ELSE IF a = <<>> THEN TRUE
    ELSE IF Head(a) # Head(b) THEN Head(a) < Head(b)
    ELSE StrLess(Tail(a), Tail(b))

RECURSIVE InsertSorted(_, _)
InsertSorted(x, s) ==
    IF s = <<>> THEN <<x>>
    ELSE IF StrLess(x, Head(s)) THEN <<x>> \o s
    ELSE <<Head(s)>> \o InsertSorted(x, Tail(s))

RECURSIVE SortStrings(_)
\* [...pattern].sort()
SortStrings(s) ==
    IF s = <<>> THEN <<>>
    ELSE InsertSorted(Head(s), SortStrings(Tail(s)))

RECURSIVE Join(_, _)
\* Array.prototype.join(sep)
Join(s, sep) ==
    IF s = <<>> THEN <<>>
    ELSE IF Len(s) = 1 THEN Head(s)
    ELSE Head(s) \o sep \o Join(Tail(s), sep)

\* crypto.createHash('sha256').update(str).digest('hex'), collision-free:
\* the digest of a string is that string under the tag sha256.
Sha256Hex(str) == [sha256 |-> str]

\* `${sortedPattern.join('|')}:${salt}`
PatternString(pattern, salt) == Join(SortStrings(pattern), ChBar) \o ChColon \o salt

\* the hash of the selection in the order given
hashPatternUnsorted(selectedIndices, salt) ==
    Sha256Hex(Join(selectedIndices, ChBar) \o ChColon \o salt)

\* the client's hashPattern(selectedIndices, salt)
hashPattern(selectedIndices, salt) == Sha256Hex(PatternString(selectedIndices, salt))

(***************************************************************************)
(* EncryptionService (utils/encryption.js).  AES-256-GCM is a counter-mode *)
(* cipher with an authentication tag over the ciphertext: here a byte has  *)
(* Radix values, the key stream adds a byte that depends on key, iv and    *)
(* position, and the tag is a checksum of key, iv, length and ciphertext   *)
(* with TagRadix values.  The tag is short, so a forgery that a 128-bit    *)
(* tag makes improbable does occur here.                                   *)
(***************************************************************************)
IV_LENGTH == 12
Bytes == 0..(Radix - 1)
Keys == 0..MaxKey
PlainTexts == UNION {[1..n -> Bytes] : n \in 0..MaxPlainLen}
\* crypto.randomBytes(IV_LENGTH): two of the values it can return
IVs == {[i \in 1..IV_LENGTH |-> 0], [i \in 1..IV_LENGTH |-> i % Radix]}

RECURSIVE SumSeq(_)
SumSeq(s) == IF s = <<>> THEN 0 ELSE Head(s) + SumSeq(Tail(s))

\* the key stream byte at position i
KeyStream(key, iv, i) == (key + SumSeq(iv) + i) % Radix

\* cipher.update / cipher.final over the bytes piped through
CipherBytes(bytes, key, iv) ==
    [i \in 1..Len(bytes) |-> (bytes[i] + KeyStream(key, iv, i)) % Radix]

\* decipher.update over the bytes piped through
DecipherBytes(bytes, key, iv) ==
    [i \in 1..Len(bytes) |-> (bytes[i] + Radix - KeyStream(key, iv, i)) % Radix]

\* the authentication tag of a ciphertext
AuthTag(ciphertext, key, iv) ==
    (key + SumSeq(iv) + Len(ciphertext)
       + SumSeq([i \in 1..Len(ciphertext) |-> (i + 1) * ciphertext[i]])) % TagRadix

\* EncryptionService.encryptStream(readStream, writeStream, key), with the iv
\* crypto.randomBytes returned: the bytes written to writeStream (the iv,
\* then the ciphertext), and the iv and authTag it returns
encryptStream(plain, key, iv) ==
    [written |-> iv \o CipherBytes(plain, key, iv),
     iv |-> iv,
     authTag |-> AuthTag(CipherBytes(plain, key, iv), key, iv)]

\* EncryptionService.decryptStream(readStream, writeStream, key, iv, authTag):
\* every byte of readStream goes through the decipher into writeStream;
\* decipher.final() throws unless the tag of those bytes is authTag
decryptStream(stored, key, iv, authTag) ==
    [ok |-> AuthTag(stored, key, iv) = authTag,
     written |-> DecipherBytes(stored, key, iv)]

(***************************************************************************)
(* The User collection (models/user.js).  A document holds the schema      *)
(* paths the /auth handlers read or write.                                 *)
(***************************************************************************)
Usernames == {StrAmy, StrBob}
Tokens == {<<116, 49>>, <<116, 50>>}          \* session tokens "t1", "t2"
NoToken == <<>>                               \* a missing (falsy) sessionToken

Undefined == [undefined |-> TRUE]
NoUser == [nouser |-> TRUE]
NoMap == [nomap |-> TRUE]
NoSession == [nosession |-> TRUE]
NullTime == -1                                \* a Date field holding null
UndefinedNum == -1                            \* a numeric property never set
NoSid == 0                                    \* no sessionId (undefined)

MAX_LOGIN_ATTEMPTS == 5
MINUTE == 60 * 1000
LOCKOUT_TIME == 15 * MINUTE
SESSION_TTL == 10 * MINUTE
TickStep == 10 * MINUTE
SessionIds == 1..MaxSessions

\* the paths userSchema declares; a property outside it is not persisted
SchemaPaths == {"passMatrixHash", "passMatrixSalt", "patternSessionId",
                "failedLoginAttempts", "lockedUntil", "lastLogin", "status"}

\* new User({username, ...}): the schema defaults
NewUser ==
    [passMatrixHash |-> Undefined, passMatrixSalt |-> Undefined,
     patternSessionId |-> NoSid, failedLoginAttempts |-> 0,
     lockedUntil |-> NullTime, lastLogin |-> NullTime, status |-> "active"]

\* User.findOne({username}): a document hydrated from the collection.  The
\* handlers' loginAttempts is not a schema path, so a hydrated document has
\* none (undefined).
FindOne(username) ==
    IF users[username] = NoUser THEN NoUser
    ELSE [f \in SchemaPaths \cup {"loginAttempts"} |->
             IF f = "loginAttempts" THEN UndefinedNum ELSE users[username][f]]

\* (v || 0) on a number that may be undefined
OrZero(v) == IF v = UndefinedNum THEN 0 ELSE v

\* user.save(): writes the schema paths of doc that differ from the loaded
\* snapshot; everything else in the stored document stays as it is.
SavedDoc(stored, snap, doc) ==
    [f \in SchemaPaths |-> IF doc[f] # snap[f] THEN doc[f] ELSE stored[f]]

\* the comparison without the sort of the pattern
validatePassMatrixUnsorted(doc, username, pattern) ==
    LET salt == IF doc.passMatrixSalt # Undefined THEN doc.passMatrixSalt
                ELSE username
    IN  Sha256Hex(Join(pattern, ChBar) \o ChColon \o salt) = doc.passMatrixHash

\* userSchema.methods.validatePassMatrix(pattern, sessionId) on a document
\* that has a passMatrixHash
validatePassMatrix(doc, username, pattern) ==
    LET salt == IF doc.passMatrixSalt # Undefined THEN doc.passMatrixSalt
                ELSE username
    IN  Sha256Hex(PatternString(pattern, salt)) = doc.passMatrixHash

(***************************************************************************)
(* Responses and request slots.                                            *)
(***************************************************************************)
\* a request slot holds the locals of one verify-pattern request that are
\* still read after the point it has reached
IdleReq ==
    [pc |-> "idle", username |-> <<>>, pattern |-> <<>>, sessionId |-> NoSid,
     registryOk |-> FALSE, sessionValid |-> FALSE, snap |-> NoUser,
     isMatch |-> FALSE, at |-> NullTime]

NoResp ==
    [op |-> "none", username |-> <<>>, sessionId |-> NoSid, code |-> 0,
     sessionOk |-> FALSE, at |-> NullTime, pattern |-> <<>>,
     found |-> "none", lockWindow |-> "none", message |-> ""]

\* a response of an /auth handler: the HTTP status it carries and, for the
\* properties below, the request it answers: whether the session the request
\* named passed the registry's checks, and when the handler read the clock.
\* A verify-pattern answer to a pattern also tells the pattern sent, the
\* status of the account the handler found, and where the request fell with
\* respect to the 15 minutes after the account's 5th consecutive failure
\* ("none" when there was no such failure, else "within" or "after").
Response(op, username, sessionId, code, sessionOk, at) ==
    [op |-> op, username |-> username, sessionId |-> sessionId, code |-> code,
     sessionOk |-> sessionOk, at |-> at, pattern |-> <<>>,
     found |-> "none", lockWindow |-> "none", message |-> ""]

\* the pattern session registered under sessionId, if any
SessionOf(sessionId) ==
    IF patternSessions = NoMap \/ sessionId \notin SessionIds THEN NoSession
    ELSE patternSessions[sessionId]

\* the checks of validateSession as the spec states them: the session exists,
\* its username and token are the request's, and it is not past its expiry
\* (the comparison the handlers make: expiresAt < new Date() is expired)
SessionGood(sessionId, username, sessionToken) ==
    LET session == SessionOf(sessionId)
    IN  /\ session # NoSession
        /\ session.username = username
        /\ session.sessionToken = sessionToken
        /\ ~(session.expiresAt < now)

(***************************************************************************)
(* POST /auth/signup                                                       *)
(***************************************************************************)
Signup(username) ==
    /\ users' = IF users[username] = NoUser
                THEN [users EXCEPT ![username] = NewUser]
                ELSE users
    /\ lastResp' = Response("signup", username, NoSid,
                            IF users[username] = NoUser THEN 201 ELSE 403,
                            FALSE, NullTime)
    /\ UNCHANGED <<patternSessions, nextSid, now, reqs, consecFails,
                   fifthFailAt, okCount, verifiedOk, tokens, pureVars, fileVars>>

(***************************************************************************)
(* POST /auth/signin                                                       *)
(***************************************************************************)
\* the document signin saves when the lock has run out
signinReset(doc) ==
    [doc EXCEPT !.status = "active", !.loginAttempts = 0, !.lockedUntil = NullTime]

Signin(username) ==
    LET user == FindOne(username)
        locked == user # NoUser /\ user.status = "locked"
        stillLocked == locked /\ user.lockedUntil # NullTime /\ user.lockedUntil > now
    IN  /\ users' = IF locked /\ ~stillLocked
                    THEN [users EXCEPT ![username] =
                             SavedDoc(@, user, signinReset(user))]
                    ELSE users
        /\ lastResp' = Response("signin", username, NoSid,
                                IF user = NoUser \/ stillLocked THEN 403 ELSE 200,
                                FALSE, NullTime)
        /\ UNCHANGED <<patternSessions, nextSid, now, reqs, consecFails,
                       fifthFailAt, okCount, verifiedOk, tokens, pureVars, fileVars>>

(***************************************************************************)
(* POST /auth/create-pattern-session                                       *)
(***************************************************************************)
\* the entry global.patternSessions.set stores
NewSession(username, sessionToken) ==
    [username |-> username, sessionToken |-> sessionToken,
     createdAt |-> now, expiresAt |-> now + SESSION_TTL]

CreatePatternSession(username, sessionToken) ==
    IF sessionToken = NoToken
    THEN /\ lastResp' = Response("create-pattern-session", username, NoSid,
                                 403, FALSE, NullTime)
         /\ UNCHANGED <<users, patternSessions, nextSid, now, reqs, consecFails,
                        fifthFailAt, okCount, verifiedOk, tokens, pureVars, fileVars>>
    ELSE /\ nextSid < MaxSessions
         /\ nextSid' = nextSid + 1
         /\ patternSessions' =
                [(IF patternSessions = NoMap
                  THEN [i \in SessionIds |-> NoSession]
                  ELSE patternSessions)
                 EXCEPT ![nextSid + 1] = NewSession(username, sessionToken)]
         /\ lastResp' = Response("create-pattern-session", username,
                                 nextSid + 1, 200, TRUE, NullTime)
         /\ UNCHANGED <<users, now, reqs, consecFails, fifthFailAt, okCount,
                        verifiedOk, tokens, pureVars, fileVars>>

(***************************************************************************)
(* POST /auth/store-pattern-hash                                           *)
(***************************************************************************)
\* the session checks without the comparison of expiresAt
storeSessionOkNoExpiry(username, sessionId, sessionToken) ==
    /\ patternSessions # NoMap
    /\ SessionOf(sessionId) # NoSession
    /\ SessionOf(sessionId).username = username
    /\ SessionOf(sessionId).sessionToken = sessionToken

\* the session checks of store-pattern-hash, in the handler's order: TRUE
\* when the request passes them all
storeSessionOk(username, sessionId, sessionToken) ==
    /\ patternSessions # NoMap
    /\ SessionOf(sessionId) # NoSession
    /\ SessionOf(sessionId).username = username
    /\ SessionOf(sessionId).sessionToken = sessionToken
    /\ ~(SessionOf(sessionId).expiresAt < now)

\* the registry after the session checks: created empty when it was missing,
\* without the looked-up session when that one matched but has expired
storeSessionsAfter(username, sessionId, sessionToken) ==
    IF patternSessions = NoMap THEN [i \in SessionIds |-> NoSession]
    ELSE IF /\ SessionOf(sessionId) # NoSession
            /\ SessionOf(sessionId).username = username
            /\ SessionOf(sessionId).sessionToken = sessionToken
            /\ SessionOf(sessionId).expiresAt < now
         THEN [patternSessions EXCEPT ![sessionId] = NoSession]
         ELSE patternSessions

\* the user document store-pattern-hash saves: found or newly created, with
\* the hash, the username as salt and the sessionId
storeUserDoc(stored, username, hash, sessionId) ==
    [(IF stored = NoUser THEN NewUser ELSE stored)
     EXCEPT !.passMatrixHash = hash, !.passMatrixSalt = username,
            !.patternSessionId = sessionId]

\* the message of the SecurityError the session checks of store-pattern-hash
\* throw, which errorHandler sends to the caller; "" when they all pass
storeSessionError(username, sessionId, sessionToken) ==
    IF sessionId = NoSid \/ sessionToken = NoToken
    THEN "Missing required parameters"
    ELSE IF patternSessions = NoMap THEN "No active sessions found"
    ELSE IF SessionOf(sessionId) = NoSession THEN "Invalid session"
    ELSE IF \/ SessionOf(sessionId).username # username
            \/ SessionOf(sessionId).sessionToken # sessionToken
         THEN "Session mismatch"
    ELSE IF SessionOf(sessionId).expiresAt < now THEN "Session expired"
    ELSE ""

StorePatternHash(username, hash, sessionId, sessionToken) ==
    LET missing == sessionId = NoSid \/ sessionToken = NoToken
        ok == ~missing /\ storeSessionOk(username, sessionId, sessionToken)
    IN  /\ patternSessions' =
               IF missing THEN patternSessions
               ELSE storeSessionsAfter(username, sessionId, sessionToken)
        /\ users' = IF ok
                    THEN [users EXCEPT ![username] =
                             storeUserDoc(@, username, hash, sessionId)]
                    ELSE users
        /\ lastResp' =
               [Response("store-pattern-hash", username, sessionId,
                         IF ok THEN 200 ELSE 403,
                         SessionGood(sessionId, username, sessionToken),
                         NullTime)
                EXCEPT !.message =
                    IF ok THEN "Pattern stored successfully"
                    ELSE storeSessionError(username, sessionId, sessionToken)]
        /\ UNCHANGED <<nextSid, now, reqs, consecFails, fifthFailAt, okCount,
                       verifiedOk, tokens, pureVars, fileVars>>

(***************************************************************************)
(* POST /auth/verify-pattern, in the three stretches its awaits cut it     *)
(* into: up to User.findOne, from the found user up to user.save, and the  *)
(* save with the response.                                                 *)
(***************************************************************************)
\* sessionValid after the lookup in global.patternSessions
verifySessionValid(username, sessionId, sessionToken) ==
    /\ patternSessions # NoMap
    /\ SessionOf(sessionId) # NoSession
    /\ SessionOf(sessionId).username = username
    /\ SessionOf(sessionId).sessionToken = sessionToken
    /\ ~(SessionOf(sessionId).expiresAt < now)

VerifyStart(p, username, pattern, sessionToken, sessionId) ==
    /\ p \in DOMAIN reqs
    /\ reqs[p].pc = "idle"
    /\ IF sessionToken = NoToken \/ sessionId = NoSid
       THEN /\ lastResp' = Response("verify-pattern", username, sessionId,
                                    IF sessionToken = NoToken THEN 403 ELSE 400,
                                    FALSE, NullTime)
            /\ reqs' = reqs
       ELSE /\ reqs' = [reqs EXCEPT ![p] =
                  [IdleReq EXCEPT
                     !.pc = "findUser", !.username = username,
                     !.pattern = pattern, !.sessionId = sessionId,
                     !.registryOk = verifySessionValid(username, sessionId,
                                                       sessionToken),
                     !.sessionValid = verifySessionValid(username, sessionId,
                                                         sessionToken)]]
            /\ lastResp' = lastResp
    /\ UNCHANGED <<users, patternSessions, nextSid, now, consecFails,
                   fifthFailAt, okCount, verifiedOk, tokens, pureVars, fileVars>>

\* sessionValid after the comparison with the user's stored patternSessionId
verifyStoredSession(sessionValid, user, sessionId) ==
    IF sessionValid THEN TRUE
    ELSE user.patternSessionId # NoSid /\ user.patternSessionId = sessionId

\* the update without the assignment of lastLogin
verifyUpdateNoLastLogin(user, isMatch, t) ==
    IF ~isMatch
    THEN [user EXCEPT !.loginAttempts = OrZero(user.loginAttempts) + 1]
    ELSE [user EXCEPT !.loginAttempts = 0]

\* the document verify-pattern hands to user.save(): the failure branch
\* (loginAttempts, and the lock once it reaches MAX_LOGIN_ATTEMPTS) or the
\* success branch (loginAttempts 0, lastLogin)
\* (t is the clock when the handler runs past validatePassMatrix)
verifyUpdate(user, isMatch, t) ==
    IF ~isMatch
    THEN LET attempts == OrZero(user.loginAttempts) + 1
         IN  IF attempts >= MAX_LOGIN_ATTEMPTS
             THEN [user EXCEPT !.loginAttempts = attempts, !.status = "locked",
                               !.lockedUntil = t + LOCKOUT_TIME]
             ELSE [user EXCEPT !.loginAttempts = attempts]
    ELSE [user EXCEPT !.loginAttempts = 0, !.lastLogin = t]

VerifyFindUser(p) ==
    LET r == reqs[p]
        user == FindOne(r.username)
    IN  /\ p \in DOMAIN reqs
        /\ r.pc = "findUser"
        /\ IF user = NoUser \/ user.passMatrixHash = Undefined
           THEN /\ reqs' = [reqs EXCEPT ![p] = IdleReq]
                /\ lastResp' = Response("verify-pattern", r.username,
                                        r.sessionId,
                                        IF user = NoUser THEN 403 ELSE 500,
                                        r.registryOk, NullTime)
           ELSE /\ reqs' = [reqs EXCEPT ![p] =
                      [r EXCEPT
                         !.pc = "save",
                         !.sessionValid =
                             verifyStoredSession(r.sessionValid, user, r.sessionId),
                         !.snap = user,
                         !.isMatch = validatePassMatrix(user, r.username, r.pattern),
                         !.at = now]]
                /\ lastResp' = lastResp
        /\ UNCHANGED <<users, patternSessions, nextSid, now, consecFails,
                       fifthFailAt, okCount, verifiedOk, tokens, pureVars, fileVars>>

\* counters of the history variables stop one past what the properties read
Bump(n, cap) == IF n < cap THEN n + 1 ELSE n

VerifySave(p) ==
    LET r == reqs[p]
        u == r.username
        fails == Bump(consecFails[u], MAX_LOGIN_ATTEMPTS + 1)
    IN  /\ p \in DOMAIN reqs
        /\ r.pc = "save"
        /\ users' = [users EXCEPT ![u] =
                        SavedDoc(@, r.snap, verifyUpdate(r.snap, r.isMatch, r.at))]
        /\ reqs' = [reqs EXCEPT ![p] = IdleReq]
        /\ lastResp' =
               [Response("verify-pattern", u, r.sessionId,
                         IF r.isMatch THEN 200 ELSE 401, r.registryOk,
                         IF r.isMatch THEN r.at ELSE NullTime)
                EXCEPT !.pattern = r.pattern,
                       !.found = r.snap.status,
                       !.lockWindow =
                           IF consecFails[u] < MAX_LOGIN_ATTEMPTS THEN "none"
                           ELSE IF r.at < fifthFailAt[u] + LOCKOUT_TIME
                                THEN "within" ELSE "after"]
        /\ consecFails' = [consecFails EXCEPT ![u] = IF r.isMatch THEN 0 ELSE fails]
        /\ fifthFailAt' = [fifthFailAt EXCEPT ![u] =
               IF r.isMatch THEN NullTime
               ELSE IF fails = MAX_LOGIN_ATTEMPTS /\ consecFails[u] < fails
                    THEN now ELSE @]
        /\ okCount' = IF r.isMatch
                      THEN [okCount EXCEPT ![r.sessionId] = Bump(@, 2)]
                      ELSE okCount
        /\ verifiedOk' = IF r.isMatch THEN verifiedOk \cup {u} ELSE verifiedOk
        /\ UNCHANGED <<patternSessions, nextSid, now, tokens, pureVars, fileVars>>

(***************************************************************************)
(* POST /auth/complete-registration and POST /auth/get-token               *)
(***************************************************************************)
CompleteRegistration(username, sessionToken) ==
    LET user == FindOne(username)
        ok == sessionToken # NoToken /\ user # NoUser
    IN  /\ users' = IF ok
                    THEN [users EXCEPT ![username] =
                             SavedDoc(@, user, [user EXCEPT !.status = "active"])]
                    ELSE users
        /\ lastResp' = Response("complete-registration", username, NoSid,
                                IF ok THEN 200 ELSE 403, FALSE, NullTime)
        /\ UNCHANGED <<patternSessions, nextSid, now, reqs, consecFails,
                       fifthFailAt, okCount, verifiedOk, tokens, pureVars, fileVars>>

GetToken(username, sessionToken) ==
    LET ok == sessionToken # NoToken /\ FindOne(username) # NoUser
    IN  /\ tokens' = IF ok THEN tokens \cup {username} ELSE tokens
        /\ lastResp' = Response("get-token", username, NoSid,
                                IF ok THEN 200 ELSE 403, FALSE, NullTime)
        /\ UNCHANGED <<users, patternSessions, nextSid, now, reqs, consecFails,
                       fifthFailAt, okCount, verifiedOk, pureVars, fileVars>>

\* time passes
Tick ==
    /\ now < MaxTicks * TickStep
    /\ now' = now + TickStep
    /\ UNCHANGED <<users, patternSessions, nextSid, reqs, lastResp, consecFails,
                   fifthFailAt, okCount, verifiedOk, tokens, pureVars, fileVars>>

\* the state of a server just started on an empty database, with n
\* verify-pattern requests able to be in flight
InitAuth(n) ==
    /\ users = [u \in Usernames |-> NoUser]
    /\ patternSessions = NoMap
    /\ nextSid = 0
    /\ now = 0
    /\ reqs = [p \in 1..n |-> IdleReq]
    /\ lastResp = NoResp
    /\ consecFails = [u \in Usernames |-> 0]
    /\ fifthFailAt = [u \in Usernames |-> NullTime]
    /\ okCount = [i \in SessionIds |-> 0]
    /\ verifiedOk = {}
    /\ tokens = {}
    /\ cr = 0
    /\ hp = 0
    /\ kw = 0
    /\ ic = 0
    /\ pm = 0
    /\ disk = 0
    /\ files = 0
    /\ dl = 0
    /\ uploads = 0
    /\ tampers = 0

TokT1 == <<116, 49>>
PatRight == <<Pt01, Pt00>>
PatWrong == <<Pt00, Pt10>>
PatStored == <<Pt00, Pt01>>

(***************************************************************************)
(* SpecLockout: one account, one pattern session, right and wrong          *)
(* patterns, one request at a time.                                        *)
(***************************************************************************)
InitLockout == InitAuth(1)

NextLockout ==
    \/ nextSid < 1 /\ CreatePatternSession(StrAmy, TokT1)
    \/ StorePatternHash(StrAmy, hashPattern(PatStored, StrAmy), 1, TokT1)
    \/ \E pat \in {PatRight, PatWrong} : VerifyStart(1, StrAmy, pat, TokT1, 1)
    \/ VerifyFindUser(1)
    \/ VerifySave(1)
    \/ Signup(StrAmy)
    \/ Signin(StrAmy)
    \/ \E t \in {TokT1, NoToken} : CompleteRegistration(StrAmy, t)
    \/ \E t \in {TokT1, NoToken} : GetToken(StrAmy, t)
    \/ Tick

SpecLockout == InitLockout /\ [][NextLockout]_vars

(***************************************************************************)
(* SpecSession: requests for one account that name any sessionId and      *)
(* either token, pattern sessions of two usernames, the right pattern,     *)
(* one request at a time.                                                  *)
(***************************************************************************)
InitSession == InitAuth(1)

NextSession ==
    \/ \E u \in Usernames, t \in {TokT1, NoToken} : CreatePatternSession(u, t)
    \/ \E i \in 0..MaxSessions, t \in Tokens \cup {NoToken} :
          StorePatternHash(StrAmy, hashPattern(PatStored, StrAmy), i, t)
    \/ \E t \in Tokens \cup {NoToken}, i \in 0..MaxSessions :
          VerifyStart(1, StrAmy, PatRight, t, i)
    \/ VerifyFindUser(1)
    \/ VerifySave(1)
    \/ Tick

SpecSession == InitSession /\ [][NextSession]_vars

(***************************************************************************)
(* SpecStore: pattern sessions of two usernames and store-pattern-hash     *)
(* requests of either username that name any sessionId and any token.      *)
(***************************************************************************)
InitStore == InitAuth(1)

NextStore ==
    \/ \E u \in Usernames, t \in {TokT1, NoToken} : CreatePatternSession(u, t)
    \/ \E u \in Usernames, i \in 0..MaxSessions, t \in Tokens \cup {NoToken} :
          StorePatternHash(u, hashPattern(PatStored, u), i, t)
    \/ Tick

SpecStore == InitStore /\ [][NextStore]_vars

(***************************************************************************)
(* Properties of the lockout state machine (SpecLockout).                  *)
(***************************************************************************)
\* the last response answers a verify-pattern request that reached the
\* pattern comparison
VerifyAnswered == lastResp.op = "verify-pattern" /\ lastResp.code \in {200, 401}

\* the pattern of the last verify-pattern request selects the points of the
\* pattern the account has stored
RightPattern == SortStrings(lastResp.pattern) = SortStrings(PatStored)

\* C2: a verify-pattern attempt made within 15 minutes of the account's 5th
\* consecutive failed verification is rejected; it never returns success,
\* not even with the right pattern.
C2_LockedAttemptNeverSucceeds ==
    (VerifyAnswered /\ lastResp.lockWindow = "within") => lastResp.code # 200

\* C3: every failed verify-pattern adds one to the account's persisted
\* failed-attempt counter; when the counter reaches 5 the account becomes
\* locked with lockedUntil 15 minutes after that failure; an account whose
\* counter is below 5 is not locked.
C3_FailureCountsAndLocks ==
    [][\A p \in DOMAIN reqs :
          (reqs[p].pc = "save" /\ reqs'[p].pc = "idle" /\ ~reqs[p].isMatch) =>
              LET u == reqs[p].username
              IN  /\ users'[u].failedLoginAttempts = users[u].failedLoginAttempts + 1
                  /\ users'[u].failedLoginAttempts >= MAX_LOGIN_ATTEMPTS =>
                         /\ users'[u].status = "locked"
                         /\ users'[u].lockedUntil = reqs[p].at + LOCKOUT_TIME
                  /\ users'[u].failedLoginAttempts < MAX_LOGIN_ATTEMPTS =>
                         users'[u].status # "locked"]_vars

C9_TokenOnlyAfterVerification == tokens \subseteq verifiedOk

(***************************************************************************)
(* Properties of the pattern-session registry (SpecSession).               *)
(***************************************************************************)
\* C6: no sessionId carries more than one successful verify-pattern.
C6_SessionConsumedOnce == \A i \in SessionIds : okCount[i] <= 1

\* C7: verify-pattern reports a match only when the sessionId names a
\* registered session with the request's username and token that has not
\* expired.
C7_MatchNeedsValidSession ==
    (lastResp.op = "verify-pattern" /\ lastResp.code = 200) => lastResp.sessionOk

C20_AcceptedOnlyBeforeExpiry ==
    [][/\ \A i \in SessionIds :
              SessionOf(i) # NoSession =>
                  SessionOf(i).expiresAt = SessionOf(i).createdAt + SESSION_TTL
       /\ (/\ lastResp'.op = "store-pattern-hash"
           /\ lastResp'.code = 200
           /\ now' = now) =>
              now < SessionOf(lastResp'.sessionId).expiresAt]_vars

\* C21: a verify-pattern request that looks up a registered session whose
\* expiry time has passed leaves the registry without that session.
C21_ExpiredSessionEvicted ==
    [][(/\ reqs[1].pc = "idle"
        /\ reqs'[1].pc = "findUser"
        /\ SessionOf(reqs'[1].sessionId) # NoSession
        /\ SessionOf(reqs'[1].sessionId).expiresAt < now) =>
           patternSessions'[reqs'[1].sessionId] = NoSession]_vars

\* C22: the response store-pattern-hash gives to a request that fails a
\* session check is the response it gives to every other request that fails
\* a session check: the caller cannot tell which check failed.
C22_UniformSessionFailure ==
    [][(/\ lastResp'.op = "store-pattern-hash"
        /\ lastResp'.code = 403
        /\ lastResp'.message # "Missing required parameters"
        /\ now' = now) =>
           \A u \in Usernames, i \in SessionIds, t \in Tokens :
               ~storeSessionOk(u, i, t) =>
                   storeSessionError(u, i, t) = lastResp'.message]_vars

(***************************************************************************)
(* SpecCrypt: a plaintext and a key, encrypted into a stored blob as the   *)
(* upload handler does and decrypted from it as the download handler does. *)
(***************************************************************************)
InitCrypt ==
    /\ users = [u \in Usernames |-> NoUser]
    /\ patternSessions = NoMap
    /\ nextSid = 0
    /\ now = 0
    /\ reqs = <<>>
    /\ lastResp = NoResp
    /\ consecFails = [u \in Usernames |-> 0]
    /\ fifthFailAt = [u \in Usernames |-> NullTime]
    /\ okCount = [i \in SessionIds |-> 0]
    /\ verifiedOk = {}
    /\ tokens = {}
    /\ \E plain \in PlainTexts, key \in Keys :
           cr = [stage |-> "plain", plain |-> plain, key |-> key, stored |-> <<>>,
                 iv |-> <<>>, authTag |-> 0, ok |-> FALSE, out |-> <<>>]
    /\ hp = 0
    /\ kw = 0
    /\ ic = 0
    /\ pm = 0
    /\ disk = 0
    /\ files = 0
    /\ dl = 0
    /\ uploads = 0
    /\ tampers = 0

\* routes/files.js, upload: encryptStream from the uploaded file into the
\* .encrypted file; iv and authTag go into the FileRecord
CryptEncrypt(iv) ==
    /\ cr.stage = "plain"
    /\ cr' = [cr EXCEPT !.stage = "stored",
                        !.stored = encryptStream(cr.plain, cr.key, iv).written,
                        !.iv = encryptStream(cr.plain, cr.key, iv).iv,
                        !.authTag = encryptStream(cr.plain, cr.key, iv).authTag]
    /\ UNCHANGED <<authVars, fileVars, hp, kw, ic, pm>>

\* routes/files.js, download: decryptStream from the whole stored file, with
\* the FileRecord's iv and authTag
CryptDecrypt ==
    /\ cr.stage = "stored"
    /\ cr' = [cr EXCEPT !.stage = "decrypted",
                        !.ok = decryptStream(cr.stored, cr.key, cr.iv, cr.authTag).ok,
                        !.out = decryptStream(cr.stored, cr.key, cr.iv,
                                              cr.authTag).written]
    /\ UNCHANGED <<authVars, fileVars, hp, kw, ic, pm>>

NextCrypt ==
    \/ \E iv \in IVs : CryptEncrypt(iv)
    \/ CryptDecrypt

SpecCrypt == InitCrypt /\ [][NextCrypt]_vars

\* C1: decrypting the whole stored blob with the key, iv and authTag of its
\* encryption succeeds and yields the plaintext.
C1_RoundTrip == cr.stage = "decrypted" => (cr.ok /\ cr.out = cr.plain)

(***************************************************************************)
(* Key wrapping (utils/encryption.js).  req.user.publicKey and             *)
(* req.user.privateKey are what the middleware in front of the handler put *)
(* on the request: undefined (authenticateJWT sets neither), a password,   *)
(* or a PEM key of an RSA pair.                                            *)
(***************************************************************************)
UndefinedCred == [kind |-> "undefined"]
Passwords == {[kind |-> "password", v |-> "pw1"], [kind |-> "password", v |-> "pw2"]}
PemPublic == [kind |-> "pem-public", pair |-> "rsa1"]
PemPrivate == [kind |-> "pem-private", pair |-> "rsa1"]
PublicCreds == {UndefinedCred, PemPublic} \cup Passwords
PrivateCreds == {UndefinedCred, PemPrivate} \cup Passwords
Threw == [threw |-> TRUE]

\* EncryptionService.encryptWithPassword(data, password): the JSON envelope
encryptWithPassword(data, password) ==
    [json |-> TRUE, password |-> password, data |-> data]

\* EncryptionService.encryptKey(key, publicKey): undefined.includes throws;
\* a string without the PEM header is taken as a password
encryptKey(key, publicKey) ==
    IF publicKey = UndefinedCred THEN Threw
    ELSE IF publicKey.kind # "pem-public" THEN encryptWithPassword(key, publicKey)
    ELSE [json |-> FALSE, pair |-> publicKey.pair, data |-> key]

\* EncryptionService.decryptWithPassword(encryptedData, password): the derived
\* key opens the envelope only for the password that sealed it
decryptWithPassword(encryptedData, password) ==
    IF password = UndefinedCred \/ encryptedData.password # password THEN Threw
    ELSE [threw |-> FALSE, key |-> encryptedData.data]

\* decryptKey without the password branch
decryptKeyAsymmetricOnly(encryptedKey, privateKey) ==
    IF ~encryptedKey.json /\ privateKey.kind = "pem-private"
         /\ privateKey.pair = encryptedKey.pair
    THEN [threw |-> FALSE, key |-> encryptedKey.data]
    ELSE Threw

\* EncryptionService.decryptKey(encryptedKey, privateKey)
decryptKey(encryptedKey, privateKey) ==
    IF encryptedKey.json THEN decryptWithPassword(encryptedKey, privateKey)
    ELSE IF privateKey.kind = "pem-private" /\ privateKey.pair = encryptedKey.pair
         THEN [threw |-> FALSE, key |-> encryptedKey.data]
         ELSE Threw

(***************************************************************************)
(* File routes (routes/files.js): upload and download.                     *)
(***************************************************************************)
UserIds == {"u1", "u2"}
FileIds == 1..MaxUploads
NoFile == [exists |-> FALSE, bytes |-> <<>>]
Stored(bytes) == [exists |-> TRUE, bytes |-> bytes]
NoRec == [norec |-> TRUE]
NoBody == [present |-> FALSE, bytes |-> <<>>]
Body(bytes) == [present |-> TRUE, bytes |-> bytes]
NoDownload == [op |-> "none"]

\* multer's req.file.path of the k-th upload, the .encrypted path next to it,
\* and the temp- path of a download of file id
UploadPath(k) == [kind |-> "upload", n |-> k]
EncryptedPath(k) == [kind |-> "encrypted", n |-> k]
TempPath(id) == [kind |-> "temp", n |-> id]
Paths == {UploadPath(k) : k \in FileIds} \cup {EncryptedPath(k) : k \in FileIds}
             \cup {TempPath(k) : k \in FileIds}

\* FileValidationService.calculateFileHash(path)
calculateFileHash(bytes) == Sha256Hex(bytes)

\* a record whose hash is the digest of the encrypted file
NewFileHashOfBlob(k, userId, fileHash, encryptedKey, enc) ==
    [path |-> EncryptedPath(k),
     encryptionKey |-> encryptedKey,
     encryptionMetadata |-> [iv |-> enc.iv, authTag |-> enc.authTag],
     hash |-> calculateFileHash(enc.written),
     owner |-> userId,
     sharedWith |-> <<>>]

\* new File({...}) of the upload handler
NewFile(k, userId, fileHash, encryptedKey, enc) ==
    [path |-> EncryptedPath(k),
     encryptionKey |-> encryptedKey,
     encryptionMetadata |-> [iv |-> enc.iv, authTag |-> enc.authTag],
     hash |-> fileHash,
     owner |-> userId,
     sharedWith |-> <<>>]

\* an upload handler that leaves req.file.path in place
unlinkUploadedKept(d, path) == d

\* fsPromises.unlink(req.file.path): after validation fails, after the record
\* is saved, or in the catch block
unlinkUploaded(d, path) == [d EXCEPT ![path] = NoFile]

\* the step of the upload handler that throws, if any, besides validation
\* and key wrapping, which depend on the request
UploadFailures == {"none", "hash", "encrypt", "save"}

\* POST /files/upload for a file multer stored at UploadPath(uploads + 1)
Upload(userId, plain, valid, fileKey, iv, publicKey, failure) ==
    LET k == uploads + 1
        enc == encryptStream(plain, fileKey, iv)
        encryptedKey == encryptKey(fileKey, publicKey)
        \* upload.single('file') has written req.file.path
        received == [disk EXCEPT ![UploadPath(k)] = Stored(plain)]
        encrypted == [received EXCEPT ![EncryptedPath(k)] = Stored(enc.written)]
    IN
    /\ uploads < MaxUploads
    /\ uploads' = k
    /\ IF ~valid
       THEN \* unlink, throw; the catch block's unlink finds nothing
            /\ disk' = unlinkUploaded(received, UploadPath(k))
            /\ files' = files
       ELSE IF failure = "hash"
       THEN \* calculateFileHash rejects; the catch block unlinks
            /\ disk' = unlinkUploaded(received, UploadPath(k))
            /\ files' = files
       ELSE IF failure = "encrypt"
       THEN \* the pipeline fails after the iv went to the .encrypted file
            /\ disk' = unlinkUploaded(
                           [received EXCEPT ![EncryptedPath(k)] = Stored(enc.iv)],
                           UploadPath(k))
            /\ files' = files
       ELSE IF encryptedKey = Threw \/ failure = "save"
       THEN \* the .encrypted file is written; the catch block unlinks req.file.path
            /\ disk' = unlinkUploaded(encrypted, UploadPath(k))
            /\ files' = files
       ELSE /\ disk' = unlinkUploaded(encrypted, UploadPath(k))
            /\ files' = [files EXCEPT ![k] = NewFile(k, userId, calculateFileHash(plain),
                                                     encryptedKey, enc)]
    /\ UNCHANGED <<authVars, pureVars, dl, tampers>>

\* a comparison that lets every digest through
hashMatchesAlways(downloadHash, fileHash) == TRUE

\* the comparison of the download handler: downloadHash !== file.hash
hashMatches(downloadHash, fileHash) == downloadHash = fileHash

\* the response of a file route: op and id name the request, by is req.user.id
DownloadResp(id, userId, status, message, decrypted, sent) ==
    [op |-> "download", id |-> id, by |-> userId, status |-> status,
     message |-> message, decrypted |-> decrypted, sent |-> sent]

\* an access check that lets every user through
hasAccessAnyone(file, userId) == TRUE

\* file.owner.equals(req.user.id) ||
\*   file.sharedWith.some(share => share.user.equals(req.user.id))
hasAccess(file, userId) ==
    \/ file.owner = userId
    \/ \E i \in 1..Len(file.sharedWith) : file.sharedWith[i].user = userId

\* GET /files/:id
Download(id, userId, privateKey) ==
    LET file == files[id]
        fileKey == decryptKey(file.encryptionKey, privateKey)
        dec == decryptStream(disk[file.path].bytes, fileKey.key, file.encryptionMetadata.iv,
                             file.encryptionMetadata.authTag)
    IN
    /\ uploads > 0
    /\ IF file = NoRec
       THEN /\ dl' = DownloadResp(id, userId, 500, "File not found", NoBody, NoBody)
            /\ disk' = disk
       ELSE IF ~hasAccess(file, userId)
       THEN /\ dl' = DownloadResp(id, userId, 403, "Access denied", NoBody, NoBody)
            /\ disk' = disk
       ELSE IF fileKey = Threw
       THEN \* createWriteStream(tempPath) has made the file
            /\ dl' = DownloadResp(id, userId, 500, "decryptKey", NoBody, NoBody)
            /\ disk' = [disk EXCEPT ![TempPath(id)] = Stored(<<>>)]
       ELSE IF ~disk[file.path].exists
       THEN \* createReadStream(file.path) fails the pipeline
            /\ dl' = DownloadResp(id, userId, 500, "ENOENT", NoBody, NoBody)
            /\ disk' = [disk EXCEPT ![TempPath(id)] = Stored(<<>>)]
       ELSE IF ~dec.ok
       THEN \* decipher.final() throws after the bytes went to the temp file
            /\ dl' = DownloadResp(id, userId, 500, "decryptStream", NoBody, NoBody)
            /\ disk' = [disk EXCEPT ![TempPath(id)] = Stored(dec.written)]
       ELSE IF ~hashMatches(calculateFileHash(dec.written), file.hash)
       THEN \* unlink(tempPath), throw SecurityError
            /\ dl' = DownloadResp(id, userId, 403, "File integrity check failed",
                                  Body(dec.written), NoBody)
            /\ disk' = [disk EXCEPT ![TempPath(id)] = NoFile]
       ELSE \* res.download(tempPath), whose callback unlinks it
            /\ dl' = DownloadResp(id, userId, 200, "", Body(dec.written), Body(dec.written))
            /\ disk' = [disk EXCEPT ![TempPath(id)] = NoFile]
    /\ UNCHANGED <<authVars, pureVars, files, uploads, tampers>>

DeleteResp(id, userId, status, message) ==
    [op |-> "delete", id |-> id, by |-> userId, status |-> status,
     message |-> message, decrypted |-> NoBody, sent |-> NoBody]

\* DELETE /files/:id.  file.remove() is Document.prototype.remove, which
\* Mongoose 7 (package.json: ^7.1.0) does not define, so the call throws;
\* removed is TRUE for a build in which the call removes the record.
Delete(id, userId, removed) ==
    LET file == files[id]
    IN
    /\ uploads > 0
    /\ IF file = NoRec
       THEN /\ dl' = DeleteResp(id, userId, 500, "File not found")
            /\ UNCHANGED <<disk, files>>
       ELSE IF file.owner # userId
       THEN /\ dl' = DeleteResp(id, userId, 403, "Only file owner can delete")
            /\ UNCHANGED <<disk, files>>
       ELSE IF ~disk[file.path].exists
       THEN \* fsPromises.unlink rejects
            /\ dl' = DeleteResp(id, userId, 500, "ENOENT")
            /\ UNCHANGED <<disk, files>>
       ELSE IF ~removed
       THEN /\ dl' = DeleteResp(id, userId, 500, "file.remove")
            /\ disk' = [disk EXCEPT ![file.path] = NoFile]
            /\ files' = files
       ELSE /\ dl' = DeleteResp(id, userId, 200, "File deleted successfully")
            /\ disk' = [disk EXCEPT ![file.path] = NoFile]
            /\ files' = [files EXCEPT ![id] = NoRec]
    /\ UNCHANGED <<authVars, pureVars, uploads, tampers>>

ShareResp(id, userId, status, message, sharedUser, permission) ==
    [op |-> "share", id |-> id, by |-> userId, status |-> status,
     message |-> message, decrypted |-> NoBody, sent |-> NoBody,
     user |-> sharedUser, permission |-> permission]

\* const { userId, permission = 'read' } = req.body
UndefinedPermission == "undefined"
Permissions == {"read", "read_write"}
permissionOrDefault(permission) ==
    IF permission = UndefinedPermission THEN "read" ELSE permission

\* a share that always pushes a new entry
shareWithAppend(sharedWith, userId, permission) ==
    Append(sharedWith, [user |-> userId, permission |-> permission])

\* the sharedWith list after the share handler: the permission of the
\* existing entry of userId is replaced, or an entry is pushed
shareWith(sharedWith, userId, permission) ==
    IF \E i \in 1..Len(sharedWith) : sharedWith[i].user = userId
    THEN LET first == CHOOSE i \in 1..Len(sharedWith) :
                         /\ sharedWith[i].user = userId
                         /\ \A j \in 1..(i - 1) : sharedWith[j].user # userId
         IN  [sharedWith EXCEPT ![first].permission = permission]
    ELSE Append(sharedWith, [user |-> userId, permission |-> permission])

\* POST /files/:id/share
Share(id, userId, sharedUser, permission) ==
    LET file == files[id]
    IN
    /\ uploads > 0
    /\ IF file = NoRec
       THEN /\ dl' = ShareResp(id, userId, 500, "File not found", sharedUser,
                               permissionOrDefault(permission))
            /\ files' = files
       ELSE IF file.owner # userId
       THEN /\ dl' = ShareResp(id, userId, 403, "Only file owner can share",
                               sharedUser, permissionOrDefault(permission))
            /\ files' = files
       ELSE /\ dl' = ShareResp(id, userId, 200, "File shared successfully",
                               sharedUser, permissionOrDefault(permission))
            /\ files' = [files EXCEPT ![id].sharedWith =
                            shareWith(@, sharedUser,
                                      permissionOrDefault(permission))]
    /\ UNCHANGED <<authVars, pureVars, disk, uploads, tampers>>

\* Somebody with access to the upload folder overwrites one byte of a stored
\* encrypted file
FlipByte(k, i) ==
    /\ tampers < MaxTampers
    /\ disk[EncryptedPath(k)].exists
    /\ i \in 1..Len(disk[EncryptedPath(k)].bytes)
    /\ disk' = [disk EXCEPT ![EncryptedPath(k)].bytes[i] = (@ + 1) % Radix]
    /\ tampers' = tampers + 1
    /\ UNCHANGED <<authVars, pureVars, files, dl, uploads>>

\* ... or cuts the first IV_LENGTH bytes off it
CutHead(k) ==
    /\ tampers < MaxTampers
    /\ disk[EncryptedPath(k)].exists
    /\ disk' = [disk EXCEPT ![EncryptedPath(k)].bytes =
                   SubSeq(@, IV_LENGTH + 1, Len(@))]
    /\ tampers' = tampers + 1
    /\ UNCHANGED <<authVars, pureVars, files, dl, uploads>>

InitFiles ==
    /\ users = [u \in Usernames |-> NoUser]
    /\ patternSessions = NoMap
    /\ nextSid = 0
    /\ now = 0
    /\ reqs = <<>>
    /\ lastResp = NoResp
    /\ consecFails = [u \in Usernames |-> 0]
    /\ fifthFailAt = [u \in Usernames |-> NullTime]
    /\ okCount = [i \in SessionIds |-> 0]
    /\ verifiedOk = {}
    /\ tokens = {}
    /\ cr = 0
    /\ hp = 0
    /\ kw = 0
    /\ ic = 0
    /\ pm = 0
    /\ disk = [p \in Paths |-> NoFile]
    /\ files = [id \in FileIds |-> NoRec]
    /\ dl = NoDownload
    /\ uploads = 0
    /\ tampers = 0

NextFiles ==
    \/ \E userId \in UserIds, plain \in PlainTexts, valid \in BOOLEAN,
          fileKey \in Keys, iv \in IVs, publicKey \in PublicCreds,
          failure \in UploadFailures :
           Upload(userId, plain, valid, fileKey, iv, publicKey, failure)
    \/ \E id \in FileIds, userId \in UserIds, privateKey \in PrivateCreds :
           Download(id, userId, privateKey)
    \/ \E id \in FileIds, userId \in UserIds, removed \in BOOLEAN :
           Delete(id, userId, removed)
    \/ \E k \in FileIds, i \in 1..(IV_LENGTH + MaxPlainLen) : FlipByte(k, i)
    \/ \E k \in FileIds : CutHead(k)

SpecFiles == InitFiles /\ [][NextFiles]_vars

InitRace == InitAuth(RaceWorkers)

NextRace ==
    \/ nextSid < 1 /\ CreatePatternSession(StrAmy, TokT1)
    \/ StorePatternHash(StrAmy, hashPattern(PatStored, StrAmy), 1, TokT1)
    \/ \E p \in 1..RaceWorkers, pat \in {PatRight, PatWrong} :
          VerifyStart(p, StrAmy, pat, TokT1, 1)
    \/ \E p \in 1..RaceWorkers : VerifyFindUser(p)
    \/ \E p \in 1..RaceWorkers : VerifySave(p)

SpecRace == InitRace /\ [][NextRace]_vars

\* C12: however concurrent failed verify-pattern requests against one account
\* interleave, the persisted failed-attempt counter has grown by the number
\* of failures answered, the account is locked once that number reaches 5,
\* and no more than 5 failed guesses in a row get an answer from the pattern
\* comparison.
C12_FailuresSerialized ==
    \A u \in Usernames :
        users[u] # NoUser =>
            /\ consecFails[u] <= MAX_LOGIN_ATTEMPTS
            /\ users[u].failedLoginAttempts = consecFails[u]
            /\ consecFails[u] >= MAX_LOGIN_ATTEMPTS => users[u].status = "locked"

(***************************************************************************)
(* SpecMatch: selections hashed by the client, stored for one account      *)
(* through store-pattern-hash and verified through verify-pattern.         *)
(***************************************************************************)
\* the points a user can select and the selections of up to MaxPatLen points
Points == {Pt00, Pt01}
Selections == UNION {[1..n -> Points] : n \in 0..MaxPatLen}

\* a and b hold the same elements, each as often, in any order
IsPermutation(a, b) ==
    /\ Len(a) = Len(b)
    /\ \E f \in [1..Len(a) -> 1..Len(a)] :
          /\ \A i, j \in 1..Len(a) : f[i] = f[j] => i = j
          /\ \A i \in 1..Len(a) : a[i] = b[f[i]]

InitMatch == InitAuth(1)

NextMatch ==
    \/ nextSid < 1 /\ CreatePatternSession(StrAmy, TokT1)
    \/ \E S \in Selections : StorePatternHash(StrAmy, hashPattern(S, StrAmy), 1, TokT1)
    \/ \E pat \in Selections : VerifyStart(1, StrAmy, pat, TokT1, 1)
    \/ VerifyFindUser(1)
    \/ VerifySave(1)

SpecMatch == InitMatch /\ [][NextMatch]_vars

\* C13: when the account found by verify-pattern holds the client's
\* hashPattern(S, u) and the request carries a permutation of S, the
\* request is answered with a match.
C13_PermutationMatches ==
    [][(reqs[1].pc = "save" /\ reqs'[1].pc = "idle") =>
          ((\E S \in Selections :
               /\ IsPermutation(reqs[1].pattern, S)
               /\ reqs[1].snap.passMatrixHash = hashPattern(S, reqs[1].username))
           => lastResp'.code = 200)]_vars

\* a match for a pattern sent in another order than the sorted one
C13_Witness ==
    /\ lastResp.op = "verify-pattern" /\ lastResp.code = 200
    /\ Len(lastResp.pattern) = MaxPatLen
    /\ lastResp.pattern # SortStrings(lastResp.pattern)

(***************************************************************************)
(* SpecHash: the client's hashPattern, User.hashPassMatrix and             *)
(* validatePassMatrix applied to a selection, a reordering of it and two   *)
(* salts.                                                                  *)
(***************************************************************************)
\* the hash of the pattern alone
hashPassMatrixNoSalt(pattern, username) ==
    [hash |-> Sha256Hex(Join(SortStrings(pattern), ChBar)), salt |-> username]

\* userSchema.statics.hashPassMatrix(pattern, username)
hashPassMatrix(pattern, username) ==
    [hash |-> Sha256Hex(Join(SortStrings(pattern), ChBar) \o ChColon \o username),
     salt |-> username]

\* a user document as store-pattern-hash leaves it for username and hash
StoredUser(username, hash) == storeUserDoc(NoUser, username, hash, 1)

InitHash ==
    /\ users = [u \in Usernames |-> NoUser]
    /\ patternSessions = NoMap
    /\ nextSid = 0
    /\ now = 0
    /\ reqs = <<>>
    /\ lastResp = NoResp
    /\ consecFails = [u \in Usernames |-> 0]
    /\ fifthFailAt = [u \in Usernames |-> NullTime]
    /\ okCount = [i \in SessionIds |-> 0]
    /\ verifiedOk = {}
    /\ tokens = {}
    /\ cr = 0
    /\ \E selection \in Selections, reordered \in Selections, salt \in Usernames,
          other \in Usernames :
           /\ IsPermutation(reordered, selection)
           /\ hp = [stage |-> "input", selection |-> selection,
                    reordered |-> reordered, salt |-> salt, other |-> other,
                    client |-> Undefined, clientReordered |-> Undefined,
                    server |-> Undefined, serverReordered |-> Undefined,
                    clientOther |-> Undefined, serverOther |-> Undefined,
                    verifiesOther |-> FALSE]
    /\ kw = 0
    /\ ic = 0
    /\ pm = 0
    /\ disk = 0
    /\ files = 0
    /\ dl = 0
    /\ uploads = 0
    /\ tampers = 0

\* the hashes of the selection: by the client and by the server, in both
\* orders
HashSelection ==
    /\ hp.stage = "input"
    /\ hp' = [hp EXCEPT
                !.stage = "hashed",
                !.client = hashPattern(hp.selection, hp.salt),
                !.clientReordered = hashPattern(hp.reordered, hp.salt),
                !.server = hashPassMatrix(hp.selection, hp.salt).hash,
                !.serverReordered = hashPassMatrix(hp.reordered, hp.salt).hash]
    /\ UNCHANGED <<authVars, fileVars, cr, kw, ic, pm>>

\* the hashes of the selection under the other salt, and the verification of
\* the selection for the other username against the first hash stored for it
HashOtherSalt ==
    /\ hp.stage = "hashed"
    /\ hp' = [hp EXCEPT
                !.stage = "salted",
                !.clientOther = hashPattern(hp.selection, hp.other),
                !.serverOther = hashPassMatrix(hp.selection, hp.other).hash,
                !.verifiesOther =
                    validatePassMatrix(StoredUser(hp.other, hp.client),
                                       hp.other, hp.selection)]
    /\ UNCHANGED <<authVars, fileVars, cr, kw, ic, pm>>

NextHash == HashSelection \/ HashOtherSalt

SpecHash == InitHash /\ [][NextHash]_vars

\* C14: hashPattern on the client and hashPassMatrix on the server give a
\* reordering of a selection the hash of the selection.
C14_OrderIndependent ==
    hp.stage # "input" =>
        /\ hp.clientReordered = hp.client
        /\ hp.serverReordered = hp.server

\* hashes of a selection of MaxPatLen points and of another order of it
C14_Witness ==
    /\ hp.stage # "input"
    /\ Len(hp.selection) = MaxPatLen
    /\ hp.reordered # hp.selection

\* C15: under two different salts a selection has two different hashes, and
\* the hash made with one username does not verify the selection for the
\* other username.
C15_SaltSensitive ==
    (hp.stage = "salted" /\ hp.salt # hp.other) =>
        /\ hp.clientOther # hp.client
        /\ hp.serverOther # hp.server
        /\ ~hp.verifiesOther

\* a selection hashed under two different salts
C15_Witness ==
    /\ hp.stage = "salted"
    /\ hp.salt # hp.other
    /\ Len(hp.selection) > 0

WrappedKeys ==
    {encryptKey(key, c) : key \in Keys, c \in PublicCreds \ {UndefinedCred}}

WrapPublic == PublicCreds \cup {[kind |-> "pem-public", pair |-> "rsa2"]}
WrapPrivate == PrivateCreds \cup {[kind |-> "pem-private", pair |-> "rsa2"]}

\* the branch encryptKey takes: publicKey.includes('-----BEGIN PUBLIC KEY-----')
encryptKeyBranch(publicKey) ==
    IF publicKey.kind = "pem-public" THEN "asymmetric" ELSE "password"

\* the branch decryptKey takes: startsWith('{') && includes('encrypted')
decryptKeyBranch(encryptedKey) ==
    IF encryptedKey.json THEN "password" ELSE "asymmetric"

InitWrap ==
    /\ users = [u \in Usernames |-> NoUser]
    /\ patternSessions = NoMap
    /\ nextSid = 0
    /\ now = 0
    /\ reqs = <<>>
    /\ lastResp = NoResp
    /\ consecFails = [u \in Usernames |-> 0]
    /\ fifthFailAt = [u \in Usernames |-> NullTime]
    /\ okCount = [i \in SessionIds |-> 0]
    /\ verifiedOk = {}
    /\ tokens = {}
    /\ cr = 0
    /\ hp = 0
    /\ \E key \in Keys, publicKey \in WrapPublic, privateKey \in WrapPrivate :
           kw = [stage |-> "key", key |-> key, publicKey |-> publicKey,
                 privateKey |-> privateKey, wrapped |-> Threw,
                 wrapBranch |-> "none", unwrapBranch |-> "none",
                 result |-> Threw]
    /\ ic = 0
    /\ pm = 0
    /\ disk = 0
    /\ files = 0
    /\ dl = 0
    /\ uploads = 0
    /\ tampers = 0

\* routes/files.js, upload: encryptKey(fileKey, req.user.publicKey)
WrapKey ==
    /\ kw.stage = "key"
    /\ kw' = [kw EXCEPT
                !.stage = IF encryptKey(kw.key, kw.publicKey) = Threw
                          THEN "threw" ELSE "wrapped",
                !.wrapped = encryptKey(kw.key, kw.publicKey),
                !.wrapBranch = IF kw.publicKey = UndefinedCred THEN "none"
                               ELSE encryptKeyBranch(kw.publicKey)]
    /\ UNCHANGED <<authVars, fileVars, cr, hp, ic, pm>>

\* routes/files.js, download: decryptKey(file.encryptionKey, req.user.privateKey)
UnwrapKey ==
    /\ kw.stage = "wrapped"
    /\ kw' = [kw EXCEPT
                !.stage = "unwrapped",
                !.unwrapBranch = decryptKeyBranch(kw.wrapped),
                !.result = decryptKey(kw.wrapped, kw.privateKey)]
    /\ UNCHANGED <<authVars, fileVars, cr, hp, ic, pm>>

NextWrap == WrapKey \/ UnwrapKey

SpecWrap == InitWrap /\ [][NextWrap]_vars

\* the private key of the pair of a PEM public key, or the same password
Matching(publicKey, privateKey) ==
    \/ /\ publicKey.kind = "pem-public"
       /\ privateKey.kind = "pem-private"
       /\ privateKey.pair = publicKey.pair
    \/ /\ publicKey.kind = "password"
       /\ privateKey = publicKey

InitTakeover == InitAuth(1)

NextTakeover ==
    \/ CreatePatternSession(StrAmy, TokT1)
    \/ \E S \in {PatStored, PatWrong}, i \in SessionIds :
          StorePatternHash(StrAmy, hashPattern(S, StrAmy), i, TokT1)
    \/ \E pat \in {PatRight, PatWrong}, i \in SessionIds :
          VerifyStart(1, StrAmy, pat, TokT1, i)
    \/ VerifyFindUser(1)
    \/ VerifySave(1)

SpecTakeover == InitTakeover /\ [][NextTakeover]_vars

\* C23: while nobody has verified the pattern of an account or holds a token
\* for it, the pattern hash the account has stored does not change.
C23_HashKeptUntilVerified ==
    [][(/\ users[StrAmy] # NoUser
        /\ users[StrAmy].passMatrixHash # Undefined
        /\ StrAmy \notin verifiedOk
        /\ StrAmy \notin tokens) =>
           users'[StrAmy].passMatrixHash = users[StrAmy].passMatrixHash]_vars

(***************************************************************************)
(* SpecDelim: validatePassMatrix over selections whose identifiers, and    *)
(* salts whose text, may hold the delimiters of the pattern string.  The   *)
(* handlers take both as strings from the request body.                    *)
(***************************************************************************)
\* "0,0", "0,1", "0,0|0,1" and "0,0:amy"
DelimIds == {Pt00, Pt01, Pt00 \o ChBar \o Pt01, Pt00 \o ChColon \o StrAmy}

\* "bob" and "amy:bob"
DelimSalts == {StrBob, StrAmy \o ChColon \o StrBob}

DelimSelections == UNION {[1..n -> DelimIds] : n \in 0..MaxPatLen}

InitDelim ==
    /\ users = [u \in Usernames |-> NoUser]
    /\ patternSessions = NoMap
    /\ nextSid = 0
    /\ now = 0
    /\ reqs = <<>>
    /\ lastResp = NoResp
    /\ consecFails = [u \in Usernames |-> 0]
    /\ fifthFailAt = [u \in Usernames |-> NullTime]
    /\ okCount = [i \in SessionIds |-> 0]
    /\ verifiedOk = {}
    /\ tokens = {}
    /\ cr = 0
    /\ \E selection \in DelimSelections, candidate \in DelimSelections,
          salt \in DelimSalts, other \in DelimSalts :
           hp = [stage |-> "input", selection |-> selection,
                 candidate |-> candidate, salt |-> salt, other |-> other,
                 doc |-> NoUser, isMatch |-> FALSE, sameString |-> FALSE]
    /\ kw = 0
    /\ ic = 0
    /\ pm = 0
    /\ disk = 0
    /\ files = 0
    /\ dl = 0
    /\ uploads = 0
    /\ tampers = 0

\* store-pattern-hash with the hash of the selection for the username salt
DelimStore ==
    /\ hp.stage = "input"
    /\ hp' = [hp EXCEPT
                !.stage = "stored",
                !.doc = StoredUser(hp.salt,
                                   hashPassMatrix(hp.selection, hp.salt).hash)]
    /\ UNCHANGED <<authVars, fileVars, cr, kw, ic, pm>>

\* validatePassMatrix of the candidate on the stored document, and the
\* pattern string of the candidate under the other salt
DelimValidate ==
    /\ hp.stage = "stored"
    /\ hp' = [hp EXCEPT
                !.stage = "validated",
                !.isMatch = validatePassMatrix(hp.doc, hp.salt, hp.candidate),
                !.sameString = (PatternString(hp.candidate, hp.other) =
                                PatternString(hp.selection, hp.salt))]
    /\ UNCHANGED <<authVars, fileVars, cr, kw, ic, pm>>

NextDelim == DelimStore \/ DelimValidate

SpecDelim == InitDelim /\ [][NextDelim]_vars

\* C24: validatePassMatrix answers true only for a permutation of the stored
\* selection, and selections that are not permutations of each other have
\* different pattern strings under any salts.
C24_OnlyPermutationsMatch ==
    (hp.stage = "validated" /\ ~IsPermutation(hp.candidate, hp.selection)) =>
        (~hp.isMatch /\ ~hp.sameString)

(***************************************************************************)
(* SpecClient: the response interceptor of the client's axios instance     *)
(* (services/api.js).  Requests are sent through api, the server answers   *)
(* each with a status, and the error handler of the interceptor runs on    *)
(* every answer that is not a success, the answers to its own              *)
(* /auth/refresh-token request included.  A handler runs without           *)
(* interruption between two awaits.                                        *)
(***************************************************************************)
RequestIds == 1..MaxRequests

\* a request promise: idle (not issued), inflight, queued (in failedQueue),
\* awaiting (its handler awaits the refresh), resolved, rejected
NewRequest == [st |-> "idle", retry |-> FALSE]

QueuedRequest(r) == [kind |-> "request", id |-> r]
QueuedRefresh(r) == [kind |-> "refresh", id |-> r]

\* the ids of the entries of one kind in failedQueue
QueuedIds(queue, kind) ==
    {queue[i].id : i \in {j \in 1..Len(queue) : queue[j].kind = kind}}

InitClient ==
    /\ users = [u \in Usernames |-> NoUser]
    /\ patternSessions = NoMap
    /\ nextSid = 0
    /\ now = 0
    /\ reqs = <<>>
    /\ lastResp = NoResp
    /\ consecFails = [u \in Usernames |-> 0]
    /\ fifthFailAt = [u \in Usernames |-> NullTime]
    /\ okCount = [i \in SessionIds |-> 0]
    /\ verifiedOk = {}
    /\ tokens = {}
    /\ cr = 0
    /\ hp = 0
    /\ kw = 0
    /\ \E stored \in BOOLEAN :
           ic = [isRefreshing |-> FALSE, failedQueue |-> <<>>,
                 refreshToken |-> stored, redirected |-> FALSE,
                 req |-> [r \in RequestIds |-> NewRequest],
                 refresh |-> [r \in RequestIds |-> "none"]]
    /\ pm = 0
    /\ disk = 0
    /\ files = 0
    /\ dl = 0
    /\ uploads = 0
    /\ tampers = 0

\* api(config): a request is issued
ClientSend(r) ==
    /\ ~ic.redirected
    /\ ic.req[r].st = "idle"
    /\ ic' = [ic EXCEPT !.req[r].st = "inflight"]
    /\ UNCHANGED <<authVars, fileVars, cr, hp, kw, pm>>

\* the answer to request r arrives and the interceptor handles it
ServerRespond(r, status) ==
    /\ ~ic.redirected
    /\ ic.req[r].st = "inflight"
    /\ ic' =
         IF status = 200
         THEN [ic EXCEPT !.req[r].st = "resolved"]
         ELSE IF status = 401 /\ ~ic.req[r].retry
         THEN IF ic.isRefreshing
              THEN [ic EXCEPT !.failedQueue = Append(@, QueuedRequest(r)),
                              !.req[r].st = "queued"]
              ELSE IF ~ic.refreshToken
              THEN [ic EXCEPT !.req[r] = [st |-> "rejected", retry |-> TRUE],
                              !.redirected = TRUE,
                              !.isRefreshing = FALSE]
              ELSE [ic EXCEPT !.req[r] = [st |-> "awaiting", retry |-> TRUE],
                              !.isRefreshing = TRUE,
                              !.refresh[r] = "inflight"]
         ELSE [ic EXCEPT !.req[r].st = "rejected"]
    /\ UNCHANGED <<authVars, fileVars, cr, hp, kw, pm>>

\* processQueue(error, token) on the promises of failedQueue: a queued
\* request is sent again with the token or rejected
processQueueReq(req, queue, rejected) ==
    [r \in RequestIds |->
        IF r \in QueuedIds(queue, "request")
        THEN [req[r] EXCEPT !.st = IF rejected THEN "rejected" ELSE "inflight"]
        ELSE IF r \in QueuedIds(queue, "refresh") /\ rejected
        THEN [req[r] EXCEPT !.st = "rejected"]
        ELSE req[r]]

\* processQueue on a queued refresh request: sent again with the token, or
\* rejected into the handler that awaits it
processQueueRefresh(refresh, queue, rejected) ==
    [r \in RequestIds |->
        IF r \in QueuedIds(queue, "refresh")
        THEN IF rejected THEN "none" ELSE "inflight"
        ELSE refresh[r]]

\* the answer to the /auth/refresh-token request of the handler of request r
\* arrives: it passes the interceptor first and then ends the handler's await
RefreshRespond(r, outcome) ==
    /\ ~ic.redirected
    /\ ic.refresh[r] = "inflight"
    /\ ic' =
         IF outcome = "401"
         THEN IF ic.isRefreshing
              THEN [ic EXCEPT !.failedQueue = Append(@, QueuedRefresh(r)),
                              !.refresh[r] = "queued"]
              ELSE [ic EXCEPT !.isRefreshing = TRUE]
         ELSE IF outcome = "error"
         THEN [ic EXCEPT
                 !.refreshToken = FALSE,
                 !.req = [processQueueReq(ic.req, ic.failedQueue, TRUE)
                          EXCEPT ![r].st = "rejected"],
                 !.refresh = [processQueueRefresh(ic.refresh, ic.failedQueue,
                                                  TRUE)
                              EXCEPT ![r] = "none"],
                 !.failedQueue = <<>>,
                 !.redirected = TRUE,
                 !.isRefreshing = FALSE]
         ELSE IF outcome = "token"
         THEN [ic EXCEPT
                 !.refreshToken = TRUE,
                 !.req = [processQueueReq(ic.req, ic.failedQueue, FALSE)
                          EXCEPT ![r].st = "inflight"],
                 !.refresh = [processQueueRefresh(ic.refresh, ic.failedQueue,
                                                  FALSE)
                              EXCEPT ![r] = "none"],
                 !.failedQueue = <<>>,
                 !.isRefreshing = FALSE]
         ELSE [ic EXCEPT
                 !.refreshToken = FALSE,
                 !.req[r].st = "rejected",
                 !.refresh[r] = "none",
                 !.redirected = TRUE,
                 !.isRefreshing = FALSE]
    /\ UNCHANGED <<authVars, fileVars, cr, hp, kw, pm>>

RefreshOutcomes == {"token", "notoken", "401", "error"}

NextClient ==
    \/ \E r \in RequestIds : ClientSend(r)
    \/ \E r \in RequestIds, status \in {200, 401, 500} : ServerRespond(r, status)
    \/ \E r \in RequestIds, outcome \in RefreshOutcomes : RefreshRespond(r, outcome)

SpecClient == InitClient /\ [][NextClient]_vars

\* the server answers every request that is in flight
SpecClientLive ==
    /\ SpecClient
    /\ \A r \in RequestIds :
          /\ WF_vars(\E status \in {200, 401, 500} : ServerRespond(r, status))
          /\ WF_vars(\E outcome \in RefreshOutcomes : RefreshRespond(r, outcome))

\* C25: a request whose 401 left it queued or awaiting the refresh is
\* eventually resolved or rejected (or the page is left for /auth).
C25_EveryRequestSettles ==
    \A r \in RequestIds :
        (ic.req[r].st \in {"queued", "awaiting"}) ~>
            (ic.req[r].st \in {"resolved", "rejected"} \/ ic.redirected)

\* C26: at most one /auth/refresh-token request is in flight, and isRefreshing
\* is false whenever none is.
C26_OneRefreshAndFlagReset ==
    /\ Cardinality({r \in RequestIds : ic.refresh[r] = "inflight"}) <= 1
    /\ (\A r \in RequestIds : ic.refresh[r] # "inflight") => ~ic.isRefreshing

(***************************************************************************)
(* SpecShare: the file routes with three users, where uploads are valid    *)
(* and wrapped with one password, and files are shared.                    *)
(***************************************************************************)
ShareUsers == UserIds \cup {"u3"}

\* the password every request of SpecShare carries
SharePassword == CHOOSE pw \in Passwords : TRUE

InitShare == InitFiles

NextShare ==
    \/ \E userId \in ShareUsers, iv \in IVs :
           Upload(userId, <<1>>, TRUE, 0, iv, SharePassword, "none")
    \/ \E id \in FileIds, userId \in ShareUsers :
           Download(id, userId, SharePassword)
    \/ \E id \in FileIds, userId \in ShareUsers, removed \in BOOLEAN :
           Delete(id, userId, removed)
    \/ \E id \in FileIds, userId \in ShareUsers, sharedUser \in ShareUsers,
          permission \in Permissions \cup {UndefinedPermission} :
           Share(id, userId, sharedUser, permission)
    \/ \E k \in FileIds : CutHead(k)

SpecShare == InitShare /\ [][NextShare]_vars

\* the owner of a file and the users of its sharedWith list
Grantees(file) ==
    {file.owner} \cup {file.sharedWith[i].user : i \in 1..Len(file.sharedWith)}

\* a step of the download, share or delete handler
FileRouteStep ==
    /\ uploads' = uploads
    /\ tampers' = tampers
    /\ dl'.op \in {"download", "share", "delete"}

AccessDenied ==
    {"Access denied", "Only file owner can share", "Only file owner can delete"}

\* C27: a download sends the file only to its owner or a user of its
\* sharedWith list, a share or delete changes the record or the blob only for
\* the owner, and a request turned down leaves the records and the blobs as
\* they were.
C27_FileAccessControl ==
    [][FileRouteStep =>
          /\ (dl'.op = "download" /\ dl'.sent.present) =>
                 /\ files[dl'.id] # NoRec
                 /\ dl'.by \in Grantees(files[dl'.id])
          /\ (dl'.op \in {"share", "delete"}
                /\ (files' # files \/ disk' # disk)) =>
                 /\ files[dl'.id] # NoRec
                 /\ files[dl'.id].owner = dl'.by
          /\ (dl'.status = 403 /\ dl'.message \in AccessDenied) =>
                 (files' = files /\ disk' = disk)]_vars

\* a user of the sharedWith list was sent the file
C27_Witness ==
    /\ dl.op = "download"
    /\ dl.sent.present
    /\ files[dl.id] # NoRec
    /\ files[dl.id].owner # dl.by
    /\ dl.by \in Grantees(files[dl.id])

\* no two entries of the list are of the same user
UniqueShares(sharedWith) ==
    \A i, j \in 1..Len(sharedWith) :
        sharedWith[i].user = sharedWith[j].user => i = j

C28_PlaintextRemoved ==
    \A k \in FileIds : ~disk[UploadPath(k)].exists

\* an upload that failed after the encrypted file was written
C28_Witness ==
    /\ uploads = 1
    /\ tampers = 0
    /\ files[1] = NoRec
    /\ disk[EncryptedPath(1)].exists
    /\ ~disk[UploadPath(1)].exists

(***************************************************************************)
(* SpecPerm: the checkPermission middleware (middleware/auth.js) on the    *)
(* document of the authenticated user, whose permissions the admin routes  *)
(* grant and revoke (routes/permissions.js).                               *)
(***************************************************************************)
PermissionStrings ==
    {"file:upload", "file:download", "file:share", "file:delete", "user:manage"}

\* permissions of a user created by signup, and of the admin of initializeDB
SignupPermissions == PermissionStrings \ {"user:manage"}

\* p.name for an element p of user.permissions: the elements are strings,
\* which have no property name
UndefinedName == "undefined"
permissionName(p) == UndefinedName

\* the outcome of checkPermission(requiredPermissions) for the user document
\* that User.findById(req.user.id).populate('permissions') resolves to, or
\* for a populate that rejects
checkPermission(user, requiredPermissions, populateThrows) ==
    IF populateThrows THEN [next |-> FALSE, status |-> 500]
    ELSE IF user.role = "admin" THEN [next |-> TRUE, status |-> 0]
    ELSE LET userPermissions == {permissionName(p) : p \in user.permissions}
         IN  IF requiredPermissions \subseteq userPermissions
             THEN [next |-> TRUE, status |-> 0]
             ELSE [next |-> FALSE, status |-> 403]

NoCheck == [done |-> FALSE, required |-> {}, next |-> FALSE, status |-> 0]

InitPerm ==
    /\ users = [u \in Usernames |-> NoUser]
    /\ patternSessions = NoMap
    /\ nextSid = 0
    /\ now = 0
    /\ reqs = <<>>
    /\ lastResp = NoResp
    /\ consecFails = [u \in Usernames |-> 0]
    /\ fifthFailAt = [u \in Usernames |-> NullTime]
    /\ okCount = [i \in SessionIds |-> 0]
    /\ verifiedOk = {}
    /\ tokens = {}
    /\ cr = 0
    /\ hp = 0
    /\ kw = 0
    /\ ic = 0
    /\ \E role \in {"user", "admin"} :
           pm = [user |-> [role |-> role,
                           permissions |-> IF role = "admin"
                                           THEN PermissionStrings
                                           ELSE SignupPermissions],
                 check |-> NoCheck]
    /\ disk = 0
    /\ files = 0
    /\ dl = 0
    /\ uploads = 0
    /\ tampers = 0

\* POST /permissions/grant
PermGrant(permissions) ==
    /\ pm' = [pm EXCEPT !.user.permissions = @ \cup permissions]
    /\ UNCHANGED <<authVars, fileVars, cr, hp, kw, ic>>

\* POST /permissions/revoke
PermRevoke(permissions) ==
    /\ pm' = [pm EXCEPT !.user.permissions = @ \ permissions]
    /\ UNCHANGED <<authVars, fileVars, cr, hp, kw, ic>>

\* a request of the user reaches checkPermission(requiredPermissions)
PermCheck(requiredPermissions, populateThrows) ==
    /\ pm' = [pm EXCEPT !.check =
                 [done |-> TRUE, required |-> requiredPermissions,
                  next |-> checkPermission(pm.user, requiredPermissions,
                                           populateThrows).next,
                  status |-> checkPermission(pm.user, requiredPermissions,
                                             populateThrows).status]]
    /\ UNCHANGED <<authVars, fileVars, cr, hp, kw, ic>>

NextPerm ==
    \/ \E p \in PermissionStrings : PermGrant({p})
    \/ \E p \in PermissionStrings : PermRevoke({p})
    \/ \E required \in SUBSET PermissionStrings, populateThrows \in BOOLEAN :
           PermCheck(required, populateThrows)

SpecPerm == InitPerm /\ [][NextPerm]_vars

\* C30: when the user document is found, checkPermission calls next exactly
\* when the user is an admin or holds every required permission, and
\* otherwise answers 403.
C30_PermissionGate ==
    [][pm'.check.done =>
          LET allowed == \/ pm.user.role = "admin"
                         \/ pm'.check.required \subseteq pm.user.permissions
          IN  (pm'.check # pm.check /\ pm'.check.status # 500) =>
                  /\ pm'.check.next = allowed
                  /\ ~allowed => pm'.check.status = 403]_vars

====
